---- MODULE Spec2Model ----
(***************************************************************************)
(* Handler registry and run-time toggle engine of the userbot              *)
(* (manager.py): the Manager object, the command matcher NewMessage, the   *)
(* registrations of setup_handlers, the client's list of event builders    *)
(* and the persisted record in the key-value store.                        *)
(*                                                                         *)
(* A message text is a sequence of symbols.  ">" and "-" are the trigger   *)
(* characters, " " is one whitespace character, every other symbol is a    *)
(* run of non-whitespace characters (a word).                              *)
(***************************************************************************)
EXTENDS Integers, Sequences, FiniteSets, TLC

(* ------------------------------ bounds -------------------------------- *)

\* how many entries of Manager.handlers (in registration order) are modelled
NumHandlers == 3

\* how many times one callback may sit in the client's event builder list
MaxCopies == 2

\* the longest message text (in symbols) the matchers are tried on
MaxLen == 3

\* how many control-command tasks may be in flight together
MaxTasks == 2

(* ------------------------------ values -------------------------------- *)

\* Python's None, where a name is expected
Null == "None"

\* the operator identities that have a key in the store
UserKeys == {"alice", "bob"}

\* the identity this session's Manager is constructed with
SessionKeys == {"alice"}

\* Manager.redis_key_data: f"data:{self.user_key}"
redis_key_data(key) == <<"data", key>>

StoreKeys == {redis_key_data(k) : k \in UserKeys}

(* --------------------- NewMessage: the matcher ------------------------ *)

\* NewMessage.__init__, self.name: explicit name, or the first command of a
\* tuple, or cmd itself, or None ('' is falsy, so the catch-all gets None)
MatcherName(name, has_cmd, cmd) ==
    IF name # Null THEN name
    ELSE IF has_cmd /\ cmd # <<>> THEN cmd[1]
    ELSE Null

\* NewMessage(...): has_cmd is FALSE for cmd=None; cmd is <<>> for cmd=''
\* (the catch-all) or the tuple of command tokens; pattern is TRUE when the
\* matcher carries pattern=NOU_LIST_REGEX
Matcher(name, has_cmd, cmd, outgoing, incoming, pattern) ==
    [name |-> MatcherName(name, has_cmd, cmd), has_cmd |-> has_cmd, cmd |-> cmd,
     outgoing |-> outgoing, incoming |-> incoming, pattern |-> pattern]

\* Manager.add_command builds NewMessage(cmd=(name,) + tuple(aliases),
\* outgoing=True, incoming=False)
CommandMatcher(name, aliases) ==
    Matcher(Null, TRUE, <<name>> \o aliases, TRUE, FALSE, FALSE)

(* ------------------- setup_handlers: registrations -------------------- *)

\* the add_command(..., registry=False) calls: subscribed to the client
\* directly, in this order, never put into Manager.handlers
ControlHandlers ==
    << [c |-> "handle_toggle",        e |-> CommandMatcher("toggle", <<"to">>)],
       [c |-> "handle_status",        e |-> CommandMatcher("status", <<>>)],
       [c |-> "handle_stop_command",  e |-> CommandMatcher("stop_command", <<"stop">>)],
       [c |-> "handle_start_command", e |-> CommandMatcher("start_command", <<"start">>)] >>

\* Manager.handlers after setup_handlers, in append order.  The body of the
\* "with add_command('nou', ...)" block appends handle_nou before the command
\* itself (handle_noop) is appended after the yield.
FullRegistry ==
    << [c |-> "handle_help",      e |-> Matcher(Null, TRUE, <<>>, TRUE, FALSE, FALSE)],
       [c |-> "handle_nou",       e |-> Matcher("nou", FALSE, <<>>, FALSE, FALSE, TRUE)],
       [c |-> "handle_noop",      e |-> CommandMatcher("nou", <<>>)],
       [c |-> "handle_hello",     e |-> CommandMatcher("hello", <<>>)],
       [c |-> "handle_eval",      e |-> CommandMatcher("eval", <<"e">>)],
       [c |-> "handle_sub",       e |-> CommandMatcher("sed", <<"s">>)],
       [c |-> "handle_timer",     e |-> CommandMatcher("timer", <<"t">>)],
       [c |-> "google",           e |-> CommandMatcher("google", <<"g">>)],
       [c |-> "magic",            e |-> CommandMatcher("moon", <<"m">>)],
       [c |-> "marquee",          e |-> CommandMatcher("marquee", <<"mar">>)],
       [c |-> "highlight_code",   e |-> CommandMatcher("highlight", <<"h">>)],
       [c |-> "handle_rotate",    e |-> CommandMatcher("rotate", <<"r">>)],
       [c |-> "loop_description", e |-> CommandMatcher("loop_desc", <<>>)],
       [c |-> "loop_name",        e |-> CommandMatcher("loop_name", <<>>)],
       [c |-> "handle_logs",      e |-> CommandMatcher("logs", <<>>)] >>

Min(a, b) == IF a < b THEN a ELSE b

\* the modelled part of the registry
Registry == SubSeq(FullRegistry, 1, Min(NumHandlers, Len(FullRegistry)))

Range(s) == {s[i] : i \in 1..Len(s)}

ControlCallbacks == {ControlHandlers[i].c : i \in 1..Len(ControlHandlers)}

RegistryCallbacks == {Registry[i].c : i \in 1..Len(Registry)}

RegistryNames == {Registry[i].e.name : i \in 1..Len(Registry)} \ {Null}

\* every callback setup_handlers registers, with its matcher
AllHandlers == ControlHandlers \o FullRegistry

MatcherTable ==
    [c \in {AllHandlers[i].c : i \in 1..Len(AllHandlers)} |->
        AllHandlers[CHOOSE i \in 1..Len(AllHandlers) : AllHandlers[i].c = c].e]

\* the matcher a callback was registered with
MatcherOf(c) == MatcherTable[c]

(* --------------- the Status Map: an OrderedDict --------------------- *)
\* handlers_statuses is a sequence of <<name, status>> pairs, keys distinct,
\* in insertion order

Keys(d) == {d[i][1] : i \in 1..Len(d)}

KeySeq(d) == [i \in 1..Len(d) |-> d[i][1]]

\* bool(d.get(name)): the key is there and its value is true
GetTrue(d, name) ==
    \E i \in 1..Len(d) : d[i][1] = name /\ d[i][2] = TRUE

\* d[name] = value: overwrite in place, or append a new key at the end
Put(d, name, value) ==
    IF name \in Keys(d)
    THEN [i \in 1..Len(d) |-> IF d[i][1] = name THEN <<name, value>> ELSE d[i]]
    ELSE Append(d, <<name, value>>)

\* set_status without the "if name" test
set_status_NoGuard(statuses, name, status) == Put(statuses, name, status)

\* Manager.set_status: a falsy name (None) is not recorded
set_status(statuses, name, status) ==
    IF name # Null THEN Put(statuses, name, status) ELSE statuses

(* ------------- the client's list of event builders -------------------- *)
\* client._event_builders is a sequence of callbacks, each standing for the
\* (matcher, callback) pair it was registered with

\* client.add_event_handler(c, e): append, no check for a copy already there
add_event_handler(builders, c) == Append(builders, c)

\* client.remove_event_handler(c, e): drop every pair with this callback
\* whose matcher has e's type (every matcher here is a NewMessage)
remove_event_handler(builders, c) == SelectSeq(builders, LAMBDA b : b # c)

\* the callbacks subscribed to the event stream
Subscribed(builders) == Range(builders)

Copies(builders, c) == Cardinality({i \in 1..Len(builders) : builders[i] = c})

(* ------------------- matching a message ------------------------------- *)

IsSpace(ch) == ch = " "

\* the first index at or after i that holds no whitespace (Len + 1 if none)
RECURSIVE SkipSpaces(_, _)
SkipSpaces(text, i) ==
    IF i <= Len(text) /\ IsSpace(text[i]) THEN SkipSpaces(text, i + 1) ELSE i

\* the first index at or after i that holds whitespace (Len + 1 if none)
RECURSIVE SkipWord(_, _)
SkipWord(text, i) ==
    IF i <= Len(text) /\ ~IsSpace(text[i]) THEN SkipWord(text, i + 1) ELSE i

\* str.split(): the maximal runs of non-whitespace, each a sequence of symbols
RECURSIVE split(_)
split(text) ==
    LET i == SkipSpaces(text, 1)
        j == SkipWord(text, i)
    IN  IF i > Len(text) THEN <<>>
        ELSE <<SubSeq(text, i, j - 1)>> \o split(SubSeq(text, j, Len(text)))

NoMatch == [ok |-> FALSE, group |-> <<>>]

\* the two expressions with an optional trigger character:  ^[>\-]?\s*(...)$
cmd_pattern_match_OptionalPrefix(cmd, text) ==
    LET j == SkipSpaces(text, IF text # <<>> /\ Head(text) \in {">", "-"} THEN 2 ELSE 1)
    IN  IF cmd = <<>>
        THEN [ok |-> TRUE, group |-> SubSeq(text, j, Len(text))]
        ELSE IF /\ j <= Len(text)
                /\ text[j] \in Range(cmd)
                /\ (j = Len(text) \/ IsSpace(text[j + 1]))
             THEN [ok |-> TRUE, group |-> SubSeq(text, j, Len(text))]
             ELSE NoMatch

\* NewMessage.cmd_pattern.match(text), the two regular expressions of
\* __init__:  ^[>\-]\s*((?:c1|c2)(?:\s+.*)?)$   and, for cmd='',
\* ^[>\-]\s*((?:\s*.*)?)$ ;  group is match[1]
cmd_pattern_match(cmd, text) ==
    IF text = <<>> \/ Head(text) \notin {">", "-"} THEN NoMatch
    ELSE LET j == SkipSpaces(text, 2)
         IN  IF cmd = <<>>
             THEN [ok |-> TRUE, group |-> SubSeq(text, j, Len(text))]
             ELSE IF /\ j <= Len(text)
                     /\ text[j] \in Range(cmd)
                     /\ (j = Len(text) \/ IsSpace(text[j + 1]))
                  THEN [ok |-> TRUE, group |-> SubSeq(text, j, Len(text))]
                  ELSE NoMatch

\* the sub-commands of Manager.parser: the names a command answers to and the
\* number of positional arguments it requires
SubCommands ==
    << [names |-> {"toggle", "to"},           required |-> 0],
       [names |-> {"status"},                 required |-> 0],
       [names |-> {"stop_command", "stop"},   required |-> 1],
       [names |-> {"start_command", "start"}, required |-> 1],
       [names |-> {"nou"},                    required |-> 0],
       [names |-> {"hello"},                  required |-> 0],
       [names |-> {"eval", "e"},              required |-> 1],
       [names |-> {"sed", "s"},               required |-> 1],
       [names |-> {"timer", "t"},             required |-> 1],
       [names |-> {"google", "g"},            required |-> 1],
       [names |-> {"moon", "m"},              required |-> 0],
       [names |-> {"marquee", "mar"},         required |-> 1],
       [names |-> {"highlight", "h"},         required |-> 0],
       [names |-> {"rotate", "r"},            required |-> 0],
       [names |-> {"loop_desc"},              required |-> 0],
       [names |-> {"loop_name"},              required |-> 0],
       [names |-> {"logs"},                   required |-> 0] >>

ParseFail == [ok |-> FALSE, handler |-> <<>>]

\* ArgumentParser.parse_known_args(tokens)[0]: no token parses to an empty
\* namespace; the first token must name a sub-command, whose required
\* positionals must be there; what follows them is tolerated.  handler is
\* the first positional (the 'handler' argument of stop and start).
parse_known_args(tokens) ==
    IF tokens = <<>> THEN [ok |-> TRUE, handler |-> <<>>]
    ELSE LET known == {i \in 1..Len(SubCommands) :
                          \E n \in SubCommands[i].names : tokens[1] = <<n>>}
         IN  IF known = {} THEN ParseFail
             ELSE LET sub == SubCommands[CHOOSE i \in known : TRUE]
                  IN  IF Len(tokens) - 1 < sub.required THEN ParseFail
                      ELSE [ok |-> TRUE,
                            handler |-> IF Len(tokens) > 1 THEN tokens[2] ELSE <<>>]

\* the text fragment "no_u" stands for what NOU_LIST_REGEX matches
NOU_LIST_REGEX(text) == "no_u" \in Range(text)

\* events.NewMessage.filter: direction and pattern
super_filter(e, msg) ==
    /\ ~(e.incoming /\ msg.out)
    /\ ~(e.outgoing /\ ~msg.out)
    /\ (e.pattern => NOU_LIST_REGEX(msg.text))

\* NewMessage.filter: [ok, handler], handler being pattern_match.handler
filter(e, msg) ==
    IF e.has_cmd
    THEN LET m == cmd_pattern_match(e.cmd, msg.text)
             args == parse_known_args(split(m.group))
         IN  IF ~m.ok \/ ~args.ok THEN ParseFail
             ELSE [ok |-> super_filter(e, msg), handler |-> args.handler]
    ELSE [ok |-> super_filter(e, msg), handler |-> <<>>]

(* ------------------------- the Manager -------------------------------- *)
\* m is the mutable part of a Manager and its client:
\* [turn_on, statuses (handlers_statuses), builders (client._event_builders)];
\* hs is Manager.handlers

\* Manager.register_handlers, the loop from entry i on
RECURSIVE register_from(_, _, _, _)
register_from(i, hs, m, update_statuses) ==
    IF i > Len(hs) THEN m
    ELSE LET h == hs[i]
             m1 == IF update_statuses
                   THEN [m EXCEPT !.builders = add_event_handler(@, h.c),
                                  !.statuses = set_status(@, h.e.name, TRUE)]
                   ELSE IF GetTrue(m.statuses, h.e.name)
                        THEN [m EXCEPT !.builders = add_event_handler(@, h.c)]
                        ELSE m
         IN  register_from(i + 1, hs, m1, update_statuses)

\* register_handlers that takes the status branch whatever update_statuses is
register_handlers_StatusOnly(hs, m, update_statuses) ==
    register_from(1, hs, m, FALSE)

register_handlers(hs, m, update_statuses) ==
    register_from(1, hs, m, update_statuses)

\* Manager.remove_handlers, the loop from entry i on
RECURSIVE remove_from(_, _, _, _)
remove_from(i, hs, m, update_statuses) ==
    IF i > Len(hs) THEN m
    ELSE LET h == hs[i]
             m1 == [m EXCEPT !.builders = remove_event_handler(@, h.c),
                             !.statuses = IF update_statuses
                                          THEN set_status(@, h.e.name, FALSE)
                                          ELSE @]
         IN  remove_from(i + 1, hs, m1, update_statuses)

\* remove_handlers that empties the client's builder list, the control
\* commands included
remove_handlers_Everything(hs, m, update_statuses) ==
    [remove_from(1, hs, m, update_statuses) EXCEPT !.builders = <<>>]

remove_handlers(hs, m, update_statuses) ==
    remove_from(1, hs, m, update_statuses)

\* what respond_with_timeout sends: kind names the text, handler the name in
\* it, turn_on and listing what the status text shows
Response(kind, handler, m) ==
    [kind |-> kind, handler |-> handler,
     turn_on |-> m.turn_on, listing |-> m.statuses]

\* what a callback hands back: the Manager after it, what it responded, and
\* whether it raised StopPropagation
Outcome(m, responses, stop) == [m |-> m, responses |-> responses, stop |-> stop]

\* handle_toggle that calls remove_handlers(update_statuses=True)
handle_toggle_ResetStatus(hs, m) ==
    LET flipped == [m EXCEPT !.turn_on = ~@]
        m1 == IF flipped.turn_on
              THEN register_handlers(hs, flipped, FALSE)
              ELSE remove_handlers(hs, flipped, TRUE)
    IN  Outcome(m1, <<Response("toggle", <<>>, m1)>>, TRUE)

\* Manager.handle_toggle
handle_toggle(hs, m) ==
    LET flipped == [m EXCEPT !.turn_on = ~@]
        m1 == IF flipped.turn_on
              THEN register_handlers(hs, flipped, FALSE)
              ELSE remove_handlers(hs, flipped, FALSE)
    IN  Outcome(m1, <<Response("toggle", <<>>, m1)>>, TRUE)

\* the entries of Manager.handlers whose name is handler_name (a token)
Named(hs, handler_name) ==
    {i \in 1..Len(hs) : hs[i].e.name # Null /\ <<hs[i].e.name>> = handler_name}

\* the entry the for loop of handle_toggle_command stops at: the first one
\* with that name
FoundEntry(hs, handler_name) ==
    CHOOSE i \in Named(hs, handler_name) : \A k \in Named(hs, handler_name) : i <= k

\* handle_toggle_command that stops a handler with remove_handlers(), which
\* unsubscribes the whole registry
handle_toggle_command_RemoveAll(hs, m, handler_name, adding) ==
    IF Named(hs, handler_name) # {}
    THEN LET h == hs[FoundEntry(hs, handler_name)]
             m0 == IF adding THEN m ELSE remove_handlers(hs, m, FALSE)
             m1 == [m0 EXCEPT !.builders = IF adding
                                           THEN add_event_handler(@, h.c)
                                           ELSE @,
                              !.statuses = set_status(@, h.e.name, adding)]
         IN  Outcome(m1,
                     <<Response(IF adding THEN "started" ELSE "stopped",
                                handler_name, m1)>>,
                     TRUE)
    ELSE Outcome(m, <<Response("not_found", handler_name, m)>>, TRUE)

\* handle_toggle_command with set_status left out when starting
handle_toggle_command_NoStatus(hs, m, handler_name, adding) ==
    IF Named(hs, handler_name) # {}
    THEN LET h == hs[FoundEntry(hs, handler_name)]
             m1 == [m EXCEPT !.builders = IF adding
                                          THEN add_event_handler(@, h.c)
                                          ELSE remove_event_handler(@, h.c),
                             !.statuses = IF adding THEN @
                                          ELSE set_status(@, h.e.name, adding)]
         IN  Outcome(m1,
                     <<Response(IF adding THEN "started" ELSE "stopped",
                                handler_name, m1)>>,
                     TRUE)
    ELSE Outcome(m, <<Response("not_found", handler_name, m)>>, TRUE)

\* handle_toggle_command with set_status(handler_name, adding) after the
\* loop, so that it runs on the not-found path too
handle_toggle_command_StatusAnyway(hs, m, handler_name, adding) ==
    IF Named(hs, handler_name) # {}
    THEN LET h == hs[FoundEntry(hs, handler_name)]
             m1 == [m EXCEPT !.builders = IF adding
                                          THEN add_event_handler(@, h.c)
                                          ELSE remove_event_handler(@, h.c),
                             !.statuses = set_status(@, h.e.name, adding)]
         IN  Outcome(m1,
                     <<Response(IF adding THEN "started" ELSE "stopped",
                                handler_name, m1)>>,
                     TRUE)
    ELSE LET m1 == [m EXCEPT !.statuses = set_status(@, handler_name[1], adding)]
         IN  Outcome(m1, <<Response("not_found", handler_name, m1)>>, TRUE)

\* Manager.handle_toggle_command
handle_toggle_command(hs, m, handler_name, adding) ==
    IF Named(hs, handler_name) # {}
    THEN LET h == hs[FoundEntry(hs, handler_name)]
             m1 == [m EXCEPT !.builders = IF adding
                                          THEN add_event_handler(@, h.c)
                                          ELSE remove_event_handler(@, h.c),
                             !.statuses = set_status(@, h.e.name, adding)]
         IN  Outcome(m1,
                     <<Response(IF adding THEN "started" ELSE "stopped",
                                handler_name, m1)>>,
                     TRUE)
    ELSE Outcome(m, <<Response("not_found", handler_name, m)>>, TRUE)

\* Manager.handle_stop_command
handle_stop_command(hs, m, handler_name) ==
    handle_toggle_command(hs, m, handler_name, FALSE)

\* Manager.handle_start_command
handle_start_command(hs, m, handler_name) ==
    handle_toggle_command(hs, m, handler_name, TRUE)

\* Manager.handle_status: responds, and returns without StopPropagation
handle_status(hs, m) ==
    Outcome(m, <<Response("status", <<>>, m)>>, FALSE)

(* ----------------------- the state store ------------------------------ *)
\* a stored value is a JSON text, here [present, turn_on, statuses] with the
\* booleans spelled "true" / "false"; present is FALSE when the key holds
\* nothing

NoData == [present |-> FALSE, turn_on |-> "true", statuses |-> <<>>]

json_bool(b) == IF b THEN "true" ELSE "false"

\* json.dumps of {'turn_on': ..., 'statuses': ...}
json_dumps(turn_on, statuses) ==
    [present |-> TRUE, turn_on |-> json_bool(turn_on),
     statuses |-> [i \in 1..Len(statuses) |->
                      <<statuses[i][1], json_bool(statuses[i][2])>>]]

\* json.loads: [present, turn_on, statuses] with booleans again
json_loads(text) ==
    [present |-> text.present, turn_on |-> (text.turn_on = "true"),
     statuses |-> [i \in 1..Len(text.statuses) |->
                      <<text.statuses[i][1], text.statuses[i][2] = "true">>]]

\* persistence.save_json(key, value)
save_json(st, key, turn_on, statuses) ==
    [st EXCEPT ![key] = json_dumps(turn_on, statuses)]

\* persistence.load_json(key)
load_json(st, key) == json_loads(st[key])

\* Manager.save_data
save_data(st, key, m) ==
    save_json(st, redis_key_data(key), m.turn_on, m.statuses)

\* update_turn_on_from_store without the assignment to self.turn_on
update_turn_on_from_store_NoAssign(hs, m, value) ==
    IF ~value THEN remove_handlers(hs, m, FALSE) ELSE m

\* Manager.update_turn_on_from_store
update_turn_on_from_store(hs, m, value) ==
    LET m1 == [m EXCEPT !.turn_on = value]
    IN  IF ~m1.turn_on THEN remove_handlers(hs, m1, FALSE) ELSE m1

\* handlers_map[name] of update_statuses_from_store: a dict built from the
\* list, so the last entry with a name is the one kept
LastEntry(hs, name) ==
    CHOOSE i \in 1..Len(hs) :
        /\ hs[i].e.name = name
        /\ \A k \in 1..Len(hs) : hs[k].e.name = name => k <= i

\* Manager.update_statuses_from_store, the loop from item i on
RECURSIVE restore_from(_, _, _, _)
restore_from(i, hs, m, statuses) ==
    IF i > Len(statuses) THEN m
    ELSE LET name == statuses[i][1]
             value == statuses[i][2]
             m1 == IF /\ name \in Keys(m.statuses)
                      /\ \E k \in 1..Len(hs) : hs[k].e.name = name
                   THEN [m EXCEPT !.statuses = Put(@, name, value),
                                  !.builders =
                                      IF ~value
                                      THEN remove_event_handler(@, hs[LastEntry(hs, name)].c)
                                      ELSE @]
                   ELSE m
         IN  restore_from(i + 1, hs, m1, statuses)

\* update_statuses_from_store without the two membership tests: every
\* persisted name is written into the Status Map
RECURSIVE restore_all_from(_, _, _, _)
restore_all_from(i, hs, m, statuses) ==
    IF i > Len(statuses) THEN m
    ELSE restore_all_from(
             i + 1, hs,
             [m EXCEPT !.statuses = Put(@, statuses[i][1], statuses[i][2])],
             statuses)

update_statuses_from_store_AllNames(hs, m, statuses) ==
    IF statuses = <<>> THEN m ELSE restore_all_from(1, hs, m, statuses)

update_statuses_from_store(hs, m, statuses) ==
    IF statuses = <<>> THEN m ELSE restore_from(1, hs, m, statuses)

\* Manager.update_from_store
update_from_store(hs, m, st, key) ==
    LET data == load_json(st, redis_key_data(key))
    IN  IF ~data.present THEN m
        ELSE update_statuses_from_store(
                 hs, update_turn_on_from_store(hs, m, data.turn_on), data.statuses)

(* --------------------------- inputs ----------------------------------- *)

\* the handler names an operator may type after stop / start
HandlerArgs == RegistryNames \cup {"toggle", "status", "ghost"}

Texts ==
    { <<">", "toggle">>, <<"-", " ", "to">>, <<">", " ", "status">>,
      <<">", "stop">>, <<">">>, <<">", "hello">>, <<">", "nou">>,
      <<"no_u">>, <<"toggle">>, <<">", "bogus">>,
      <<">", "start_command", " ", "nou">> }
    \cup {<<">", "stop", " ", n>> : n \in HandlerArgs}
    \cup {<<"-", "start", " ", " ", n>> : n \in HandlerArgs}

\* out is the message's direction: sent by the operator, or by someone else
Messages ==
    {[out |-> TRUE, text |-> t] : t \in Texts}
    \cup {[out |-> FALSE, text |-> t] : t \in {<<"no_u">>, <<">", "toggle">>}}

\* the status maps a store may hold at the start: "removed" is a handler of
\* an earlier version of the program; names may be missing, and the order
\* need not be the registration order
PersistedStatuses ==
    { <<>>,
      << <<"hello", TRUE>> >>,
      << <<"removed", FALSE>>, <<"nou", FALSE>> >>,
      << <<"hello", FALSE>>, <<"removed", TRUE>>, <<"nou", TRUE>> >> }

\* what the store may hold under the operator's key at the start
PersistedRecords ==
    {NoData} \cup {json_dumps(t, sts) : t \in BOOLEAN, sts \in PersistedStatuses}

\* NewMessage.filter of every registered matcher on every message
FilterTable ==
    [msg \in Messages |-> [c \in DOMAIN MatcherTable |-> filter(MatcherOf(c), msg)]]

(* ------------------- the client's dispatch ---------------------------- *)

\* the callback c run on a matched event; args is filter's pattern_match.
\* The callbacks of the handlers package leave the Manager alone.
callback(c, hs, m, args) ==
    CASE c = "handle_toggle"        -> handle_toggle(hs, m)
      [] c = "handle_status"        -> handle_status(hs, m)
      [] c = "handle_stop_command"  -> handle_stop_command(hs, m, args)
      [] c = "handle_start_command" -> handle_start_command(hs, m, args)
      [] OTHER                      -> Outcome(m, <<>>, FALSE)

\* the client's loop over its event builders, from position i on: every
\* builder whose filter accepts the message has its callback awaited, until
\* one raises StopPropagation.  d is [m, invoked, responses]; stops are the
\* callbacks of the handlers package that raise StopPropagation this time.
RECURSIVE dispatch_from(_, _, _, _, _)
dispatch_from(i, hs, d, msg, stops) ==
    IF i > Len(d.m.builders) THEN d
    ELSE LET c == d.m.builders[i]
             f == FilterTable[msg][c]
         IN  IF ~f.ok THEN dispatch_from(i + 1, hs, d, msg, stops)
             ELSE LET r == callback(c, hs, d.m, f.handler)
                      d1 == [m |-> r.m,
                             invoked |-> Append(d.invoked, c),
                             responses |-> d.responses \o r.responses]
                  IN  IF r.stop \/ c \in stops THEN d1
                      ELSE dispatch_from(i + 1, hs, d1, msg, stops)

dispatch(hs, m, msg, stops) ==
    dispatch_from(1, hs, [m |-> m, invoked |-> <<>>, responses |-> <<>>], msg, stops)

(* ---------------------------- state ----------------------------------- *)

VARIABLES
    pc,                \* "new": Manager constructed; "running"; "exited"; "killed"
    user_key,          \* Manager.user_key
    turn_on,           \* Manager.turn_on
    handlers,          \* Manager.handlers
    handlers_statuses, \* Manager.handlers_statuses
    builders,          \* client._event_builders
    store,             \* the key-value store, by key
    invoked,           \* the callbacks run for the last message, in order
    responses,         \* what they responded
    before,            \* the callbacks subscribed before the last message
    stopped,           \* the names stopped and not started since
    last_pair,         \* what the last two messages did together, if a pair
    saved,             \* save_data has written the operator's record
    message,           \* the message the matchers are tried on
    matched,           \* the callbacks whose matcher accepted it
    tasks,             \* the control-command coroutines in flight, in creation order
    expected           \* the Manager had every coroutine run alone, in start order

vars == <<pc, user_key, turn_on, handlers, handlers_statuses, builders, store,
          invoked, responses, before, stopped, last_pair, saved,
          message, matched, tasks, expected>>

\* what the matcher trial and the coroutine scheduler keep
aux == <<message, matched, tasks, expected>>

NoMessage == [out |-> TRUE, text |-> <<>>]

NoManager == [turn_on |-> TRUE, statuses |-> <<>>, builders |-> <<>>]

AuxInit ==
    /\ message = NoMessage
    /\ matched = {}
    /\ tasks = <<>>
    /\ expected = NoManager

\* the Manager and its client as the record the operations work on
Mgr == [turn_on |-> turn_on, statuses |-> handlers_statuses, builders |-> builders]

\* Manager.__init__
Init ==
    /\ pc = "new"
    /\ user_key \in SessionKeys
    /\ turn_on = TRUE
    /\ handlers = <<>>
    /\ handlers_statuses = <<>>
    /\ builders = <<>>
    /\ \E r \in PersistedRecords :
           store = [k \in StoreKeys |-> IF k = redis_key_data(user_key) THEN r ELSE NoData]
    /\ invoked = <<>>
    /\ responses = <<>>
    /\ before = {}
    /\ stopped = {}
    /\ last_pair = <<>>
    /\ saved = FALSE
    /\ AuxInit

\* the client's builders once the registry=False commands are added
ControlBuilders == [i \in 1..Len(ControlHandlers) |-> ControlHandlers[i].c]

\* setup_handlers after the Manager is built: the registrations, then
\* register_handlers(update_statuses=True), then update_from_store()
setup_handlers ==
    /\ pc = "new"
    /\ \E m2 \in {update_from_store(
                       Registry,
                       register_handlers(Registry, [Mgr EXCEPT !.builders = ControlBuilders], TRUE),
                       store, user_key)} :
           /\ handlers' = Registry
           /\ turn_on' = m2.turn_on
           /\ handlers_statuses' = m2.statuses
           /\ builders' = m2.builders
    /\ pc' = "running"
    /\ invoked' = <<>>
    /\ responses' = <<>>
    /\ before' = {}
    /\ stopped' = {}
    /\ last_pair' = <<>>
    /\ UNCHANGED <<user_key, store, saved>>
    /\ UNCHANGED aux

\* the names stopped and not started since, after one more response
Stopped(s, rs) ==
    IF rs = <<>> THEN s
    ELSE LET r == rs[Len(rs)]
         IN  IF r.kind = "stopped" THEN s \cup {r.handler[1]}
             ELSE IF r.kind = "started" THEN s \ {r.handler[1]}
             ELSE s

\* what two messages in a row did together: a global toggle off and on again,
\* or a stop and a start of the same handler; <<>> otherwise
Pair(rs1, rs2) ==
    IF rs1 = <<>> \/ rs2 = <<>> THEN <<>>
    ELSE LET a == rs1[Len(rs1)]
             b == rs2[Len(rs2)]
         IN  IF a.kind = "toggle" /\ ~a.turn_on /\ b.kind = "toggle" /\ b.turn_on
             THEN <<"off_on">>
             ELSE IF a.kind = "stopped" /\ b.kind = "started" /\ a.handler = b.handler
                  THEN <<"stop_start">> \o b.handler
                  ELSE <<>>

\* the client receives a message and runs the handlers that match it
Dispatch(msg, stops) ==
    /\ pc = "running"
    /\ \E d \in {dispatch(handlers, Mgr, msg, stops)} :
           /\ \A c \in RegistryCallbacks : Copies(d.m.builders, c) <= MaxCopies
           /\ turn_on' = d.m.turn_on
           /\ handlers_statuses' = d.m.statuses
           /\ builders' = d.m.builders
           /\ invoked' = d.invoked
           /\ responses' = d.responses
           /\ stopped' = Stopped(stopped, d.responses)
           /\ last_pair' = Pair(responses, d.responses)
    /\ before' = Subscribed(builders)
    /\ UNCHANGED <<pc, user_key, handlers, store, saved>>
    /\ UNCHANGED aux

Receive == \E msg \in Messages, stops \in {{}, RegistryCallbacks} : Dispatch(msg, stops)

\* the process ends normally: the atexit hook runs save_data
Exit ==
    /\ pc = "running"
    /\ store' = save_data(store, user_key, Mgr)
    /\ saved' = TRUE
    /\ pc' = "exited"
    /\ invoked' = <<>>
    /\ responses' = <<>>
    /\ last_pair' = <<>>
    /\ UNCHANGED <<user_key, turn_on, handlers, handlers_statuses, builders, before, stopped>>
    /\ UNCHANGED aux

\* the process is killed: no atexit hook runs
Kill ==
    /\ pc = "running"
    /\ pc' = "killed"
    /\ invoked' = <<>>
    /\ responses' = <<>>
    /\ last_pair' = <<>>
    /\ UNCHANGED <<user_key, turn_on, handlers, handlers_statuses, builders, store,
                   before, stopped, saved>>
    /\ UNCHANGED aux

\* the program is started again for the same operator: Manager.__init__
Restart ==
    /\ pc \in {"exited", "killed"}
    /\ pc' = "new"
    /\ turn_on' = TRUE
    /\ handlers' = <<>>
    /\ handlers_statuses' = <<>>
    /\ builders' = <<>>
    /\ invoked' = <<>>
    /\ responses' = <<>>
    /\ before' = {}
    /\ stopped' = {}
    /\ last_pair' = <<>>
    /\ UNCHANGED <<user_key, store, saved>>
    /\ UNCHANGED aux

Next == setup_handlers \/ Receive \/ Exit \/ Kill \/ Restart

Spec == Init /\ [][Next]_vars

(* ------------------- one message, every matcher ----------------------- *)

\* the symbols message texts are made of
Alphabet == {">", "-", " ", "toggle", "nou", "no_u"}

\* every text of at most n symbols
TextsUpTo(n) == UNION {[1..k -> Alphabet] : k \in 0..n}

\* a message has arrived at a client that holds every registration of
\* setup_handlers
InitMatch ==
    /\ pc = "received"
    /\ user_key \in SessionKeys
    /\ turn_on = TRUE
    /\ handlers = FullRegistry
    /\ handlers_statuses = <<>>
    /\ builders = [i \in 1..Len(AllHandlers) |-> AllHandlers[i].c]
    /\ store = [k \in StoreKeys |-> NoData]
    /\ invoked = <<>>
    /\ responses = <<>>
    /\ before = {}
    /\ stopped = {}
    /\ last_pair = <<>>
    /\ saved = FALSE
    /\ message \in {[out |-> o, text |-> t] : o \in BOOLEAN, t \in TextsUpTo(MaxLen)}
    /\ matched = {}
    /\ tasks = <<>>
    /\ expected = NoManager

\* NewMessage.filter of every builder on the message
Filter ==
    /\ pc = "received"
    /\ pc' = "filtered"
    /\ matched' = {c \in Range(builders) : filter(MatcherOf(c), message).ok}
    /\ UNCHANGED <<user_key, turn_on, handlers, handlers_statuses, builders, store,
                   invoked, responses, before, stopped, last_pair, saved,
                   message, tasks, expected>>

NextMatch == Filter

SpecMatch == InitMatch /\ [][NextMatch]_vars

(* ------------------- control commands as coroutines ------------------- *)

\* the control commands whose coroutines are scheduled together
TaskCommands ==
    { [c |-> "handle_toggle",        args |-> <<>>],
      [c |-> "handle_status",        args |-> <<>>],
      [c |-> "handle_stop_command",  args |-> <<"nou">>],
      [c |-> "handle_start_command", args |-> <<"nou">>] }

\* where a coroutine is: "created" (not yet run), suspended in one of the
\* awaits of respond_with_timeout ("gather", "sleep", "delete"), or "done"
AfterAwait(at) ==
    CASE at = "gather" -> "sleep"
      [] at = "sleep"  -> "delete"
      [] OTHER         -> "done"

\* a coroutine whose writes come after its first await, not before it
resume_WriteAfterAwait(t, hs, m) ==
    IF t.at = "created" THEN [m |-> m, at |-> "gather"]
    ELSE IF t.at = "gather" THEN [m |-> callback(t.c, hs, m, t.args).m, at |-> "sleep"]
    ELSE [m |-> m, at |-> AfterAwait(t.at)]

\* the event loop runs coroutine t from where it is to its next await: from
\* "created" that is the handler's code down to respond_with_timeout, which
\* holds every write of the handler; the rest of the coroutine writes nothing
resume(t, hs, m) ==
    IF t.at = "created" THEN [m |-> callback(t.c, hs, m, t.args).m, at |-> "gather"]
    ELSE [m |-> m, at |-> AfterAwait(t.at)]

\* the program is running after a cold start on some store
InitTasks ==
    /\ pc = "running"
    /\ user_key \in SessionKeys
    /\ handlers = Registry
    /\ \E r \in PersistedRecords :
           /\ store = [k \in StoreKeys |-> IF k = redis_key_data(user_key) THEN r ELSE NoData]
           /\ \E m2 \in {update_from_store(
                              Registry,
                              register_handlers(Registry,
                                                [NoManager EXCEPT !.builders = ControlBuilders],
                                                TRUE),
                              store, user_key)} :
                  /\ turn_on = m2.turn_on
                  /\ handlers_statuses = m2.statuses
                  /\ builders = m2.builders
                  /\ expected = m2
    /\ invoked = <<>>
    /\ responses = <<>>
    /\ before = {}
    /\ stopped = {}
    /\ last_pair = <<>>
    /\ saved = FALSE
    /\ message = NoMessage
    /\ matched = {}
    /\ tasks = <<>>

\* the client creates the coroutine of a control command
CreateTask(cmd) ==
    /\ pc = "running"
    /\ Len(tasks) < MaxTasks
    /\ tasks' = Append(tasks, [c |-> cmd.c, args |-> cmd.args, at |-> "created"])
    /\ UNCHANGED <<pc, user_key, turn_on, handlers, handlers_statuses, builders, store,
                   invoked, responses, before, stopped, last_pair, saved,
                   message, matched, expected>>

Create == \E cmd \in TaskCommands : CreateTask(cmd)

\* the event loop resumes coroutine i; a coroutine that starts is also run
\* alone on the expected Manager
ResumeTask(i) ==
    /\ pc = "running"
    /\ tasks[i].at # "done"
    /\ \E r \in {resume(tasks[i], handlers, Mgr)} :
           /\ turn_on' = r.m.turn_on
           /\ handlers_statuses' = r.m.statuses
           /\ builders' = r.m.builders
           /\ tasks' = [tasks EXCEPT ![i].at = r.at]
    /\ expected' = IF tasks[i].at = "created"
                    THEN callback(tasks[i].c, handlers, expected, tasks[i].args).m
                    ELSE expected
    /\ UNCHANGED <<pc, user_key, handlers, store, invoked, responses, before, stopped,
                   last_pair, saved, message, matched>>

Resume == \E i \in 1..Len(tasks) : ResumeTask(i)

NextTasks == Create \/ Resume

SpecTasks == InitTasks /\ [][NextTasks]_vars

(* ---------------------------- claims ---------------------------------- *)

\* the operator's record as load_json reads it
Persisted == load_json(store, redis_key_data(user_key))

\* the registry entries named X
EntriesNamed(X) == {i \in 1..Len(handlers) : handlers[i].e.name = X}

\* the last message ran exactly this callback
Ran(c) == pc = "running" /\ invoked = <<c>>

\* C1: whenever the Global Toggle is false, no handler of the registry is
\* subscribed to the event stream, whatever its individual status.
C1_GlobalOffNoneSubscribed ==
    (pc = "running" /\ ~turn_on) =>
        Subscribed(builders) \cap RegistryCallbacks = {}

\* C2: while the Global Toggle is on, every registry entry whose name is a key
\* of the Status Map is subscribed if and only if the Status Map value of its
\* name is true.
C2_StatusMatchesSubscription ==
    (pc = "running" /\ turn_on) =>
        \A i \in 1..Len(handlers) :
            handlers[i].e.name \in Keys(handlers_statuses) =>
                (handlers[i].c \in Subscribed(builders)
                    <=> GetTrue(handlers_statuses, handlers[i].e.name))

\* C3: a global toggle to off immediately followed by a global toggle to on
\* yields exactly the set of subscribed handlers there was before the first
\* toggle, the unnamed help handler and entries sharing a name included.
C3_GlobalCycleRestores ==
    [][(/\ Ran("handle_toggle") /\ ~turn_on
        /\ invoked' = <<"handle_toggle">> /\ turn_on')
          => Subscribed(builders') = before]_vars

\* the last response sent, and the handler name it is about
LastResponse == responses[Len(responses)]

\* the first registry entry named X (a token): the one stop and start act on
FirstCallback(X) == handlers[FoundEntry(handlers, X)].c

\* C4 as claimed, taken where the Global Toggle is on: stop X followed by
\* start X leaves the subscribed set exactly as it was before the pair, and
\* Status Map[X] true.
C4_StopStartAsBefore ==
    [][(/\ pc = "running" /\ turn_on /\ responses # <<>> /\ responses' # <<>>
        /\ LastResponse.kind = "stopped"
        /\ LastResponse'.kind = "started"
        /\ LastResponse'.handler = LastResponse.handler)
          => /\ Subscribed(builders') = before
             /\ GetTrue(handlers_statuses', LastResponse.handler[1])]_vars

\* C4, amended: stop X followed by start X leaves the first registry entry
\* named X subscribed (as before the pair if it was subscribed, newly if it
\* was not), changes no other handler's subscription, and leaves
\* Status Map[X] true.
C4_StopStartSubscribes ==
    [][(/\ pc = "running" /\ responses # <<>> /\ responses' # <<>>
        /\ LastResponse.kind = "stopped"
        /\ LastResponse'.kind = "started"
        /\ LastResponse'.handler = LastResponse.handler)
          => LET c == FirstCallback(LastResponse.handler)
             IN  /\ c \in Subscribed(builders')
                 /\ Subscribed(builders') \ {c} = before \ {c}
                 /\ (c \in before => Subscribed(builders') = before)
                 /\ GetTrue(handlers_statuses', LastResponse.handler[1])]_vars

\* a stop nou, start nou pair has run from a state with handle_nou subscribed
C4_Witness ==
    /\ pc = "running"
    /\ last_pair = <<"stop_start", "nou">>
    /\ "handle_nou" \in Subscribed(builders)
    /\ before = Subscribed(builders) \ {"handle_nou"}
    /\ GetTrue(handlers_statuses, "nou")

\* C5: stop or start with a name that matches no registry entry reports
\* "handler not found" and changes neither the Status Map, nor the Global
\* Toggle, nor the event builders; the names of the control commands are
\* such names.
C5_NotFoundNoMutation ==
    [][(/\ pc = "running"
        /\ invoked' \in {<<"handle_stop_command">>, <<"handle_start_command">>}
        /\ responses' # <<>>
        /\ Named(handlers, LastResponse'.handler) = {})
          => /\ LastResponse'.kind = "not_found"
             /\ UNCHANGED <<turn_on, handlers_statuses, builders>>]_vars

\* start toggle was answered with "handler not found"
C5_Witness ==
    /\ Ran("handle_start_command")
    /\ LastResponse.kind = "not_found"
    /\ LastResponse.handler = <<"toggle">>
    /\ handlers_statuses # <<>>

\* the non-null names of the registry entries
NamesOf(hs) == {hs[i].e.name : i \in 1..Len(hs)} \ {Null}

\* C6: cold start with a persisted record: a persisted name that is not in
\* the registry never becomes a key of the Status Map; a registered name with
\* no persisted entry ends enabled; a registered name with a persisted entry
\* ends with the persisted value.
C6_ColdStartRestore ==
    [][(pc = "new" /\ pc' = "running" /\ Persisted.present)
          => /\ Keys(handlers_statuses') = NamesOf(handlers')
             /\ \A n \in NamesOf(handlers') :
                    IF n \in Keys(Persisted.statuses)
                    THEN GetTrue(handlers_statuses', n) <=> GetTrue(Persisted.statuses, n)
                    ELSE GetTrue(handlers_statuses', n)]_vars

\* a cold start has read a record that names a handler no longer registered
\* and disables a registered one
C6_Witness ==
    /\ pc = "running" /\ before = {}
    /\ Persisted.present
    /\ "removed" \in Keys(Persisted.statuses)
    /\ "nou" \in Keys(Persisted.statuses)
    /\ ~GetTrue(Persisted.statuses, "nou")
    /\ handlers_statuses = << <<"nou", FALSE>> >>

\* C7: after each completed toggle, stop or start command the stored record
\* under the operator's key equals the in-memory turn_on and Status Map.
C7_PersistedOnToggle ==
    (\/ Ran("handle_toggle")
     \/ Ran("handle_stop_command")
     \/ Ran("handle_start_command"))
        => Persisted = [present |-> TRUE, turn_on |-> turn_on,
                        statuses |-> handlers_statuses]

\* C8: save_data writes [turn_on, statuses] under <<"data", operator>> and
\* under no other key, and a cold start with the same registry after a
\* save_data ends with turn_on and a Status Map (keys, values, order) equal to
\* the saved ones.
C8_RoundTrip ==
    [][/\ (pc = "running" /\ pc' = "exited")
            => /\ \A k \in StoreKeys \ {<<"data", user_key>>} : store'[k] = store[k]
               /\ load_json(store', <<"data", user_key>>)
                      = [present |-> TRUE, turn_on |-> turn_on,
                         statuses |-> handlers_statuses]
       /\ (pc = "new" /\ pc' = "running" /\ saved)
            => /\ turn_on' = Persisted.turn_on
               /\ handlers_statuses' = Persisted.statuses]_vars

\* a cold start has restored a record written by save_data with the bot off
\* and nou stopped
C8_Witness ==
    /\ pc = "running" /\ before = {} /\ saved
    /\ Persisted = [present |-> TRUE, turn_on |-> FALSE,
                    statuses |-> << <<"nou", FALSE>> >>]
    /\ ~turn_on
    /\ handlers_statuses = << <<"nou", FALSE>> >>

\* C9: a message that runs one of the four control commands runs no other
\* handler.
C9_ControlStopsPropagation ==
    (pc = "running" /\ \E i \in 1..Len(invoked) : invoked[i] \in ControlCallbacks)
        => Len(invoked) = 1

\* C10: from a stop X until the next start X, through global toggles and
\* status commands, Status Map[X] is false and no registry entry named X is
\* subscribed.
C10_StoppedStaysOff ==
    pc = "running" =>
        \A X \in stopped :
            /\ ~GetTrue(handlers_statuses, X)
            /\ \A i \in EntriesNamed(X) : handlers[i].c \notin Subscribed(builders)

\* the callbacks of the registry entries
CallbacksOf(hs) == {hs[i].c : i \in 1..Len(hs)}

\* C11: a cold start that finds no record under the operator's key (load_json
\* answers nothing, or an empty record, both falsy) ends with the Global
\* Toggle on, every registry handler subscribed and every named handler
\* enabled.
C11_ColdStartNoRecord ==
    [][(pc = "new" /\ pc' = "running" /\ ~Persisted.present)
          => /\ turn_on'
             /\ CallbacksOf(handlers') \subseteq Subscribed(builders')
             /\ Keys(handlers_statuses') = NamesOf(handlers')
             /\ \A n \in NamesOf(handlers') : GetTrue(handlers_statuses', n)]_vars

\* a cold start has run with nothing in the store
C11_Witness ==
    /\ pc = "running" /\ before = {}
    /\ ~Persisted.present
    /\ turn_on
    /\ "handle_help" \in Subscribed(builders)
    /\ handlers_statuses = << <<"nou", TRUE>> >>

\* C13: a global toggle, to off or to on, leaves the Status Map (keys, values,
\* order) as it was.
C13_ToggleKeepsStatuses ==
    [][(pc = "running" /\ invoked' = <<"handle_toggle">> /\ turn_on' # turn_on)
          => handlers_statuses' = handlers_statuses]_vars

\* the bot was toggled off and on again with nou stopped, and nou is still
\* stopped
C13_Witness ==
    /\ pc = "running"
    /\ last_pair = <<"off_on">>
    /\ turn_on
    /\ handlers_statuses = << <<"nou", FALSE>> >>

\* the value of key n in a Status Map that has it
ValueOf(d, n) == d[CHOOSE i \in 1..Len(d) : d[i][1] = n][2]

C15_SubscribedAtMostOnce ==
    pc = "running" => \A c \in RegistryCallbacks : Copies(builders, c) <= 1

\* the message "> toggle", sent by the operator
ToggleMessage == [out |-> TRUE, text |-> <<">", "toggle">>]

\* C17: the four control commands stay subscribed in every reachable state,
\* and from every state with the Global Toggle off one toggle message runs
\* handle_toggle and turns it on.
C17_ControlAlwaysReachable ==
    pc = "running" =>
        /\ ControlCallbacks \subseteq Subscribed(builders)
        /\ ~turn_on =>
               \A stops \in {{}, RegistryCallbacks} :
                   LET d == dispatch(handlers, Mgr, ToggleMessage, stops)
                   IN  d.invoked = <<"handle_toggle">> /\ d.m.turn_on

\* a cold start restored turn_on = false, and one toggle turned the bot on
C17_Witness ==
    /\ Ran("handle_toggle")
    /\ turn_on
    /\ before = ControlCallbacks
    /\ Persisted.present /\ ~Persisted.turn_on
    /\ stopped = {}

\* the entries a change of the builder list unsubscribed
Unsubscribed(m1) ==
    {i \in 1..Len(handlers) :
        handlers[i].c \in Subscribed(builders) /\ handlers[i].c \notin Subscribed(m1.builders)}

\* C18: for every name X whose entries are all subscribed, the entries that
\* the restore of a persisted X = false unsubscribes are the entries that the
\* run-time stop X unsubscribes.
C18_SameEntriesDisabled ==
    pc = "running" =>
        \A X \in Keys(handlers_statuses) :
            (\A i \in EntriesNamed(X) : handlers[i].c \in Subscribed(builders)) =>
                Unsubscribed(update_statuses_from_store(handlers, Mgr, << <<X, FALSE>> >>))
                    = Unsubscribed(handle_stop_command(handlers, Mgr, <<X>>).m)

\* the non-null names of the entries from i on, each once, in the order of
\* their first entry; seen are the names of the entries before i
RECURSIVE NameOrderFrom(_, _, _)
NameOrderFrom(hs, i, seen) ==
    IF i > Len(hs) THEN <<>>
    ELSE LET n == hs[i].e.name
         IN  IF n = Null \/ n \in seen THEN NameOrderFrom(hs, i + 1, seen)
             ELSE <<n>> \o NameOrderFrom(hs, i + 1, seen \cup {n})

C12_NoPrefixNoCommand ==
    (pc = "filtered" /\ (message.text = <<>> \/ Head(message.text) \notin {">", "-"}))
        => \A c \in matched : ~MatcherOf(c).has_cmd

\* whitespace before the trigger character: only the pattern handler accepts
C12_Witness ==
    /\ pc = "filtered"
    /\ message = [out |-> FALSE, text |-> <<" ", ">", "no_u">>]
    /\ matched = {"handle_nou"}

====
